---- MODULE Spec2Model ----
\* Vanity key search of sgiath/nostr (scripts/nostr_keys.py, vanity_hex.py,
\* vanity_npub.py): the command line entry points, the Coordinator
\* (run_vanity_search) and its worker processes (_vanity_worker).
\*
\* Text is a sequence of one-character strings, a key is a sequence of bytes.
EXTENDS Integers, Sequences, FiniteSets, TLC

\* ------------------------------------------------------------------ bounds
\* cpu_count() is read from the machine: at most this many workers.
MaxWorkers == 2
\* Key-generation attempts one worker may make (os.urandom is unbounded).
MaxAttempts == 3
\* The flush interval of _vanity_worker.  The source writes 1000 (lines 43, 45
\* and 49); the worker's code is parametric in it and the model runs it with a
\* small interval so that batch boundaries are reached within MaxAttempts.
BatchSize == 2

\* ------------------------------------------------------------- text, bytes
HEXDIGITS == <<"0","1","2","3","4","5","6","7","8","9","a","b","c","d","e","f">>

\* nostr_keys.py:10
BECH32_CHARSET == <<"q","p","z","r","y","9","x","8","g","f","2","t","v","d","w","0",
                    "s","3","j","n","5","4","k","h","c","e","6","m","u","a","7","l">>

UPPERCASE == <<"A","B","C","D","E","F","G","H","I","J","K","L","M",
               "N","O","P","Q","R","S","T","U","V","W","X","Y","Z">>
LOWERCASE == <<"a","b","c","d","e","f","g","h","i","j","k","l","m",
               "n","o","p","q","r","s","t","u","v","w","x","y","z">>

Range(s) == {s[i] : i \in DOMAIN s}

IndexOf(c, s) == CHOOSE i \in DOMAIN s : s[i] = c

Drop(s, n) == IF n >= Len(s) THEN <<>> ELSE SubSeq(s, n + 1, Len(s))

\* str.startswith
startswith(s, p) == Len(p) <= Len(s) /\ SubSeq(s, 1, Len(p)) = p

\* str.lower on one character, and on a text
LowerChar(c) == IF c \in Range(UPPERCASE) THEN LOWERCASE[IndexOf(c, UPPERCASE)] ELSE c
lower(s) == [i \in DOMAIN s |-> LowerChar(s[i])]

\* bytes.hex: two lower-case digits per byte, high nibble first
hex(bytes) ==
    [i \in 1..(2 * Len(bytes)) |->
        LET b == bytes[(i + 1) \div 2]
        IN  IF i % 2 = 1 THEN HEXDIGITS[(b \div 16) + 1] ELSE HEXDIGITS[(b % 16) + 1]]

\* bytes.fromhex, as to_bech32 applies it to its hex argument
fromhex(h) ==
    [i \in 1..(Len(h) \div 2) |->
        16 * (IndexOf(h[2 * i - 1], HEXDIGITS) - 1) + (IndexOf(h[2 * i], HEXDIGITS) - 1)]

\* bit k (1-based, most significant first) of a byte string; 0 past its end
BitAt(bytes, k) ==
    IF k > 8 * Len(bytes) THEN 0
    ELSE (bytes[((k - 1) \div 8) + 1] \div (2 ^ (7 - ((k - 1) % 8)))) % 2

\* convertbits(data, 8, 5, pad=True): regroup into 5-bit values, zero padded
convertbits(bytes) ==
    [j \in 1..((8 * Len(bytes) + 4) \div 5) |->
        16 * BitAt(bytes, 5 * j - 4) + 8 * BitAt(bytes, 5 * j - 3)
        + 4 * BitAt(bytes, 5 * j - 2) + 2 * BitAt(bytes, 5 * j - 1) + BitAt(bytes, 5 * j)]

\* to_bech32(hrp, hex): hrp, the separator 1, then the data characters.  The six
\* checksum characters that follow are left out: every prefix of the model is
\* no longer than the data part.
to_bech32(hrp, h) ==
    LET data == convertbits(fromhex(h))
    IN  hrp \o <<"1">> \o [j \in DOMAIN data |-> BECH32_CHARSET[data[j] + 1]]

NPUB == <<"n","p","u","b">>
NPUB1 == <<"n","p","u","b","1">>

\* ---------------------------------------------------------- int(prefix, 16)
\* What Python's int(text, 16) accepts: surrounding whitespace, a sign, a 0x
\* base prefix, and single underscores between digits.
WHITESPACE == {" ", "\t", "\n"}
INT16DIGITS == Range(HEXDIGITS) \cup {"A","B","C","D","E","F"}

RECURSIVE lstrip(_)
lstrip(s) == IF s # <<>> /\ s[1] \in WHITESPACE THEN lstrip(Tail(s)) ELSE s

RECURSIVE rstrip(_)
rstrip(s) ==
    IF s # <<>> /\ s[Len(s)] \in WHITESPACE THEN rstrip(SubSeq(s, 1, Len(s) - 1)) ELSE s

AfterSign(s) == IF s # <<>> /\ s[1] \in {"+", "-"} THEN Tail(s) ELSE s

AfterBase(s) ==
    IF Len(s) >= 2 /\ s[1] = "0" /\ s[2] \in {"x", "X"}
    THEN LET r == Drop(s, 2) IN IF r # <<>> /\ r[1] = "_" THEN Tail(r) ELSE r
    ELSE s

DigitsOK(d) ==
    /\ d # <<>>
    /\ d[1] # "_"
    /\ d[Len(d)] # "_"
    /\ \A i \in DOMAIN d : d[i] \in INT16DIGITS \cup {"_"}
    /\ \A i \in 1..(Len(d) - 1) : ~(d[i] = "_" /\ d[i + 1] = "_")

\* TRUE when int(s, 16) returns, FALSE when it raises ValueError
int16_parses(s) == DigitsOK(AfterBase(AfterSign(rstrip(lstrip(s)))))

\* ------------------------------------------------------------------ inputs
\* sys.argv[1:] of vanity_hex.py
HexArgv == { <<>>, << <<"A">> >>, << <<"z">> >>, << <<"0","x","a">> >>, << <<>> >> }
\* sys.argv[1:] of vanity_npub.py
NpubArgv == { <<>>, << <<"q">> >>, << <<"N","p","u","b","1","q">> >>, << <<"b">> >>,
              << <<"n","p","u","b","1","b">> >> }

\* The private keys os.urandom may return.
PrivPool == { <<1>>, <<55>>, <<66>> }

\* nostr_keys.py:13-16.  The curve multiplication of the external secp256k1
\* module is stood for by a multiplication in Z_256 (a bijection on bytes).
pubkey_from_privbytes(priv_bytes) == [k \in DOMAIN priv_bytes |-> (priv_bytes[k] * 163) % 256]

\* ------------------------------------------------------------------- state
VARIABLES
    argv,          \* sys.argv[1:]
    hex_mode,      \* TRUE: vanity_hex.py runs, FALSE: vanity_npub.py
    n_workers,     \* multiprocessing.cpu_count()
    cpc,           \* where the main process (the Coordinator) stands
    idx,           \* position of its for loops over the workers
    prefix,        \* the prefix handed to run_vanity_search
    wpc,           \* where each worker stands
    local_count,   \* each worker's local_count
    priv_bytes,    \* each worker's priv_bytes
    pub_bytes,     \* each worker's pub_bytes
    match,         \* each worker's match
    tmp,           \* the counter value a worker read in counter.value += n
    counter,       \* counter.value
    lock,          \* processes holding lock
    vlock,         \* processes holding the lock inside the Value counter
    found_event,   \* found_event.is_set()
    result_queue,  \* result_queue, oldest first
    published,     \* every result ever put on result_queue, oldest first
    total,         \* total of the Coordinator's last progress poll
    result,        \* <<(priv_bytes, pub_bytes)>> once retrieved, else <<>>
    reported,      \* the count of "Found after ... total attempts"
    overrun,       \* attempts each worker began after found_event was set
    flushed,       \* what each worker has added to counter.value so far
    first_hit,     \* <<position, priv, pub>> of each worker's first matching draw
    aborted        \* found_event was set from outside with nothing published

vars == << argv, hex_mode, n_workers, cpc, idx, prefix, wpc, local_count, priv_bytes,
           pub_bytes, match, tmp, counter, lock, vlock, found_event, result_queue,
           published, total, result, reported, overrun, flushed, first_hit, aborted >>

envVars == << argv, hex_mode, n_workers, prefix, aborted >>
workerVars == << wpc, local_count, priv_bytes, pub_bytes, match, tmp, overrun, flushed,
                first_hit >>
coordVars == << cpc, idx, total, result, reported >>
sharedVars == << counter, lock, vlock, found_event, result_queue, published >>

AllWorkers == 1..MaxWorkers
Workers == 1..n_workers
\* the main process, as a holder of locks
Main == 0

Init ==
    /\ \E h \in BOOLEAN :
          /\ hex_mode = h
          /\ argv \in (IF h THEN HexArgv ELSE NpubArgv)
    /\ n_workers \in 1..MaxWorkers
    /\ cpc = "main"
    /\ idx = 1
    /\ prefix = <<>>
    /\ wpc = [w \in AllWorkers |-> "unborn"]
    /\ local_count = [w \in AllWorkers |-> 0]
    /\ priv_bytes = [w \in AllWorkers |-> <<>>]
    /\ pub_bytes = [w \in AllWorkers |-> <<>>]
    /\ match = [w \in AllWorkers |-> FALSE]
    /\ tmp = [w \in AllWorkers |-> 0]
    /\ counter = 0
    /\ lock = {}
    /\ vlock = {}
    /\ found_event = FALSE
    /\ result_queue = <<>>
    /\ published = <<>>
    /\ total = 0
    /\ result = <<>>
    /\ reported = 0
    /\ overrun = [w \in AllWorkers |-> 0]
    /\ flushed = [w \in AllWorkers |-> 0]
    /\ first_hit = [w \in AllWorkers |-> <<>>]
    /\ aborted = FALSE

\* ------------------------------------------------------- the entry points
\* vanity_hex.py main()
\* lines 17-22: int(prefix, 16) does not raise
hex_valid(p) == int16_parses(p)

MainHex ==
    /\ cpc = "main"
    /\ hex_mode
    /\ IF Len(argv) < 1
       THEN cpc' = "exit1" /\ prefix' = prefix
       ELSE LET p == lower(argv[1])
            IN  IF hex_valid(p)
                THEN cpc' = "spawn" /\ prefix' = p
                ELSE cpc' = "exit1" /\ prefix' = prefix
    /\ UNCHANGED << argv, hex_mode, n_workers, aborted, idx, total, result, reported >>
    /\ UNCHANGED << workerVars, sharedVars >>

\* vanity_npub.py main()
\* the npub1 part is left on the prefix
npub_strip_Kept(p) == p

\* lines 17-18
npub_strip(p) == IF startswith(p, NPUB1) THEN Drop(p, 5) ELSE p

\* lines 20-24: every character is in BECH32_CHARSET
npub_valid(p) == \A k \in DOMAIN p : p[k] \in Range(BECH32_CHARSET)

MainNpub ==
    /\ cpc = "main"
    /\ ~hex_mode
    /\ IF Len(argv) < 1
       THEN cpc' = "exit1" /\ prefix' = prefix
       ELSE LET p == npub_strip(lower(argv[1]))
            IN  IF npub_valid(p)
                THEN cpc' = "spawn" /\ prefix' = p
                ELSE cpc' = "exit1" /\ prefix' = prefix
    /\ UNCHANGED << argv, hex_mode, n_workers, aborted, idx, total, result, reported >>
    /\ UNCHANGED << workerVars, sharedVars >>

\* ------------------------------------------------------------- the workers
\* A process that has ended has no memory left: its local variables are gone.
\* local_count alone is kept, as the record of the attempts it made.
Exited(w) ==
    /\ priv_bytes' = [priv_bytes EXCEPT ![w] = <<>>]
    /\ pub_bytes' = [pub_bytes EXCEPT ![w] = <<>>]
    /\ match' = [match EXCEPT ![w] = FALSE]
    /\ tmp' = [tmp EXCEPT ![w] = 0]

\* a loop that never looks at found_event
WorkerLoop_NoCheck(w) ==
    /\ wpc[w] = "loop"
    /\ local_count[w] < MaxAttempts
    /\ wpc' = [wpc EXCEPT ![w] = "gen"]
    /\ UNCHANGED << local_count, priv_bytes, pub_bytes, match, tmp, overrun, flushed, first_hit >>
    /\ UNCHANGED << envVars, coordVars, sharedVars >>

\* line 32: while not found_event.is_set()
WorkerLoop(w) ==
    /\ wpc[w] = "loop"
    /\ IF found_event
       THEN /\ wpc' = [wpc EXCEPT ![w] = "done"]
            /\ Exited(w)
       ELSE /\ local_count[w] < MaxAttempts
            /\ wpc' = [wpc EXCEPT ![w] = "gen"]
            /\ UNCHANGED << priv_bytes, pub_bytes, match, tmp >>
    /\ UNCHANGED << local_count, overrun, flushed, first_hit >>
    /\ UNCHANGED << envVars, coordVars, sharedVars >>

\* the request is satisfied by pub: the prefix is the first characters of its
\* hex text (Hex mode) or of its npub text after npub1 (Bech32 mode)
EncodingHasPrefix(pub) ==
    LET enc == IF hex_mode THEN hex(pub) ELSE to_bech32(NPUB, hex(pub))
        off == IF hex_mode THEN 0 ELSE Len(NPUB1)
    IN  /\ off + Len(prefix) <= Len(enc)
        /\ \A j \in 1..Len(prefix) : enc[off + j] = prefix[j]

\* the Prefix Matcher of lines 37-41
matches(pub, hexm, pfx) ==
    IF hexm
    THEN startswith(hex(pub), pfx)
    ELSE startswith(Drop(to_bech32(NPUB, hex(pub)), 5), pfx)

\* lines 48-52 run whether or not the key matched
AfterBatch_Unconditional(m) == "m_lock"

\* line 47: if match
AfterBatch(m) == IF m THEN "m_lock" ELSE "loop"

\* the batch flush of lines 43-45 is never taken
AfterCount_NoBatch(n, m) == AfterBatch(m)

\* a match off a batch boundary is published without the flush of lines 48-49
AfterCount_NoRemainder(n, m) ==
    IF n % BatchSize = 0 THEN "b_lock" ELSE IF m THEN "put" ELSE "loop"

\* line 43: if local_count % 1000 == 0, then line 47
AfterCount(n, m) == IF n % BatchSize = 0 THEN "b_lock" ELSE AfterBatch(m)

\* lines 33-43: draw a key, derive the public key, count, match, and the tests
\* of lines 43 and 47 on the worker's own variables
WorkerGenerate(w) ==
    /\ wpc[w] = "gen"
    /\ \E priv \in PrivPool :
          LET pub == pubkey_from_privbytes(priv)
          IN  /\ priv_bytes' = [priv_bytes EXCEPT ![w] = priv]
              /\ pub_bytes' = [pub_bytes EXCEPT ![w] = pub]
              /\ match' = [match EXCEPT ![w] = matches(pub, hex_mode, prefix)]
    /\ local_count' = [local_count EXCEPT ![w] = @ + 1]
    /\ overrun' = [overrun EXCEPT ![w] = IF found_event THEN @ + 1 ELSE @]
    /\ first_hit' = [first_hit EXCEPT ![w] =
                        IF @ = <<>> /\ EncodingHasPrefix(pub_bytes'[w])
                        THEN << local_count'[w], priv_bytes'[w], pub_bytes'[w] >>
                        ELSE @]
    /\ wpc' = [wpc EXCEPT ![w] = AfterCount(local_count'[w], match'[w])]
    /\ UNCHANGED << tmp, flushed >>
    /\ UNCHANGED << envVars, coordVars, sharedVars >>

\* os.urandom raises: the exception ends the worker process
WorkerRandomFail(w) ==
    /\ wpc[w] = "gen"
    /\ wpc' = [wpc EXCEPT ![w] = "crashed"]
    /\ Exited(w)
    /\ UNCHANGED << local_count, overrun, flushed, first_hit >>
    /\ UNCHANGED << envVars, coordVars, sharedVars >>

\* "with lock:" entered without waiting for the lock to be free
AcquireLock_NoWait(w, from, to) ==
    /\ wpc[w] = from
    /\ lock' = lock \cup {w}
    /\ wpc' = [wpc EXCEPT ![w] = to]
    /\ UNCHANGED << local_count, priv_bytes, pub_bytes, match, tmp, overrun, flushed, first_hit >>
    /\ UNCHANGED << counter, vlock, found_event, result_queue, published >>
    /\ UNCHANGED << envVars, coordVars >>

\* entering "with lock:", from position `from` to position `to`
AcquireLock(w, from, to) ==
    /\ wpc[w] = from
    /\ lock = {}
    /\ lock' = {w}
    /\ wpc' = [wpc EXCEPT ![w] = to]
    /\ UNCHANGED << local_count, priv_bytes, pub_bytes, match, tmp, overrun, flushed, first_hit >>
    /\ UNCHANGED << counter, vlock, found_event, result_queue, published >>
    /\ UNCHANGED << envVars, coordVars >>

\* entering the setter of counter.value
AcquireValue(w, from, to) ==
    /\ wpc[w] = from
    /\ vlock = {}
    /\ vlock' = {w}
    /\ wpc' = [wpc EXCEPT ![w] = to]
    /\ UNCHANGED << local_count, priv_bytes, pub_bytes, match, tmp, overrun, flushed, first_hit >>
    /\ UNCHANGED << counter, lock, found_event, result_queue, published >>
    /\ UNCHANGED << envVars, coordVars >>

\* the getter of counter.value: enter, read, leave.  A worker ended inside the
\* getter leaves what one ended on entering the setter leaves, so the getter is
\* one step.
ReadValue(w, from, to) ==
    /\ wpc[w] = from
    /\ vlock = {}
    /\ tmp' = [tmp EXCEPT ![w] = counter]
    /\ vlock' = vlock
    /\ wpc' = [wpc EXCEPT ![w] = to]
    /\ UNCHANGED << local_count, priv_bytes, pub_bytes, match, overrun, flushed, first_hit >>
    /\ UNCHANGED << counter, lock, found_event, result_queue, published >>
    /\ UNCHANGED << envVars, coordVars >>

\* the setter of counter.value stores what was read plus n, and leaves
WriteValue(w, from, to, n) ==
    /\ wpc[w] = from
    /\ counter' = tmp[w] + n
    /\ flushed' = [flushed EXCEPT ![w] = @ + n]
    /\ tmp' = [tmp EXCEPT ![w] = 0]
    /\ vlock' = vlock \ {w}
    /\ wpc' = [wpc EXCEPT ![w] = to]
    /\ UNCHANGED << local_count, priv_bytes, pub_bytes, match, overrun, first_hit >>
    /\ UNCHANGED << lock, found_event, result_queue, published >>
    /\ UNCHANGED << envVars, coordVars >>

\* the "with lock:" block left without releasing the lock
ReleaseLock_Kept(w, from, to) ==
    /\ wpc[w] = from
    /\ lock' = lock
    /\ wpc' = [wpc EXCEPT ![w] = to]
    /\ UNCHANGED << local_count, priv_bytes, pub_bytes, match, tmp, overrun, flushed, first_hit >>
    /\ UNCHANGED << counter, vlock, found_event, result_queue, published >>
    /\ UNCHANGED << envVars, coordVars >>

\* leaving "with lock:"
ReleaseLock(w, from, to) ==
    /\ wpc[w] = from
    /\ lock' = lock \ {w}
    /\ wpc' = [wpc EXCEPT ![w] = to]
    /\ UNCHANGED << local_count, priv_bytes, pub_bytes, match, tmp, overrun, flushed, first_hit >>
    /\ UNCHANGED << counter, vlock, found_event, result_queue, published >>
    /\ UNCHANGED << envVars, coordVars >>

\* lines 44-45: with lock: counter.value += 1000
WorkerBatchFlush(w) ==
    \/ AcquireLock(w, "b_lock", "b_get")
    \/ ReadValue(w, "b_get", "b_set")
    \/ AcquireValue(w, "b_set", "b_write")
    \/ WriteValue(w, "b_write", "b_unlock", BatchSize)
    \/ ReleaseLock(w, "b_unlock", AfterBatch(match[w]))

\* the match flush adding the whole local count instead of the remainder
WorkerMatchFlush_FullCount(w) ==
    \/ AcquireLock(w, "m_lock", "m_get")
    \/ ReadValue(w, "m_get", "m_set")
    \/ AcquireValue(w, "m_set", "m_write")
    \/ WriteValue(w, "m_write", "m_unlock", local_count[w])
    \/ ReleaseLock(w, "m_unlock", "put")

\* lines 48-49: with lock: counter.value += local_count % 1000
WorkerMatchFlush(w) ==
    \/ AcquireLock(w, "m_lock", "m_get")
    \/ ReadValue(w, "m_get", "m_set")
    \/ AcquireValue(w, "m_set", "m_write")
    \/ WriteValue(w, "m_write", "m_unlock", local_count[w] % BatchSize)
    \/ ReleaseLock(w, "m_unlock", "put")

\* the worker goes on to found_event.set() without putting its result
WorkerPut_Skipped(w) ==
    /\ wpc[w] = "put"
    /\ wpc' = [wpc EXCEPT ![w] = "set"]
    /\ UNCHANGED << local_count, priv_bytes, pub_bytes, match, tmp, overrun, flushed, first_hit >>
    /\ UNCHANGED << envVars, coordVars, sharedVars >>

\* line 50: result_queue.put((priv_bytes, pub_bytes)); the queue is unbounded
WorkerPut(w) ==
    /\ wpc[w] = "put"
    /\ result_queue' = Append(result_queue, << priv_bytes[w], pub_bytes[w] >>)
    /\ published' = Append(published, << priv_bytes[w], pub_bytes[w] >>)
    /\ wpc' = [wpc EXCEPT ![w] = "set"]
    /\ UNCHANGED << local_count, priv_bytes, pub_bytes, match, tmp, overrun, flushed, first_hit >>
    /\ UNCHANGED << counter, lock, vlock, found_event >>
    /\ UNCHANGED << envVars, coordVars >>

\* set() on an event that is already set clears it
WorkerSet_Toggle(w) ==
    /\ wpc[w] = "set"
    /\ found_event' = ~found_event
    /\ wpc' = [wpc EXCEPT ![w] = "done"]
    /\ Exited(w)
    /\ UNCHANGED << local_count, overrun, flushed, first_hit >>
    /\ UNCHANGED << counter, lock, vlock, result_queue, published >>
    /\ UNCHANGED << envVars, coordVars >>

\* lines 51-52: found_event.set(); return
WorkerSet(w) ==
    /\ wpc[w] = "set"
    /\ found_event' = TRUE
    /\ wpc' = [wpc EXCEPT ![w] = "done"]
    /\ Exited(w)
    /\ UNCHANGED << local_count, overrun, flushed, first_hit >>
    /\ UNCHANGED << counter, lock, vlock, result_queue, published >>
    /\ UNCHANGED << envVars, coordVars >>

\* what a worker does while the random source works
WorkerStep(w) ==
    \/ WorkerLoop(w)
    \/ WorkerGenerate(w)
    \/ WorkerBatchFlush(w)
    \/ WorkerMatchFlush(w)
    \/ WorkerPut(w)
    \/ WorkerSet(w)

Running(w) == wpc[w] \notin {"unborn", "done", "crashed", "terminated"}

\* --------------------------------------------------------- the Coordinator
\* lines 66-73: start the workers one by one; a started worker runs at once
CoordSpawn ==
    /\ cpc = "spawn"
    /\ wpc' = [wpc EXCEPT ![idx] = "loop"]
    /\ IF idx < n_workers
       THEN idx' = idx + 1 /\ cpc' = cpc
       ELSE idx' = 1 /\ cpc' = "poll"
    /\ UNCHANGED << total, result, reported >>
    /\ UNCHANGED << local_count, priv_bytes, pub_bytes, match, tmp, overrun, flushed, first_hit >>
    /\ UNCHANGED << envVars, sharedVars >>

\* line 76: while not found_event.is_set()
CoordPoll ==
    /\ cpc = "poll"
    /\ cpc' = IF found_event THEN "get" ELSE "sleep"
    /\ UNCHANGED << idx, total, result, reported >>
    /\ UNCHANGED << envVars, workerVars, sharedVars >>

\* lines 77-79: time.sleep(1), then enter "with lock:"
CoordLock ==
    /\ cpc = "sleep"
    /\ lock = {}
    /\ lock' = {Main}
    /\ cpc' = "read"
    /\ UNCHANGED << idx, total, result, reported >>
    /\ UNCHANGED << counter, vlock, found_event, result_queue, published >>
    /\ UNCHANGED << envVars, workerVars >>

\* lines 80-86: total = counter.value, leave "with lock:", print the progress
CoordRead ==
    /\ cpc = "read"
    /\ vlock = {}
    /\ total' = counter
    /\ lock' = lock \ {Main}
    /\ cpc' = "poll"
    /\ UNCHANGED << idx, result, reported >>
    /\ UNCHANGED << counter, vlock, found_event, result_queue, published >>
    /\ UNCHANGED << envVars, workerVars >>

\* a get that hands out the newest result
Dequeued_Newest(q) == q[Len(q)]

\* what result_queue.get hands out of a non-empty queue
Dequeued(q) == Head(q)

\* line 88: result_queue.get(timeout=2), a result being there
CoordGet ==
    /\ cpc = "get"
    /\ result_queue # <<>>
    /\ result' = << Dequeued(result_queue) >>
    /\ result_queue' = Tail(result_queue)
    /\ cpc' = "terminate"
    /\ idx' = 1
    /\ UNCHANGED << total, reported >>
    /\ UNCHANGED << counter, lock, vlock, found_event, published >>
    /\ UNCHANGED << envVars, workerVars >>

\* p.terminate() leaves the worker running where it stands
Terminated_Ignored(pc) == pc

\* p.terminate() on a worker standing at pc: SIGTERM ends a live process where
\* it stands, with the locks it holds still held
Terminated(pc) == IF pc \in {"done", "crashed"} THEN pc ELSE "terminated"

\* lines 89-91: p.terminate(); p.join() for the next worker
CoordTerminate ==
    /\ cpc = "terminate"
    /\ wpc' = [wpc EXCEPT ![idx] = Terminated(wpc[idx])]
    /\ Exited(idx)
    /\ IF idx < n_workers
       THEN idx' = idx + 1 /\ cpc' = cpc
       ELSE idx' = 1 /\ cpc' = "report"
    /\ UNCHANGED << total, result, reported >>
    /\ UNCHANGED << local_count, overrun, flushed, first_hit >>
    /\ UNCHANGED << envVars, sharedVars >>

\* lines 93-95: read counter.value (through the Value's own lock, without
\* lock) and print the result
CoordReport ==
    /\ cpc = "report"
    /\ vlock = {}
    /\ reported' = counter
    /\ cpc' = "drained"
    /\ UNCHANGED << idx, total, result >>
    /\ UNCHANGED << envVars, workerVars, sharedVars >>

\* line 88: result_queue.get(timeout=2) on a queue that stays empty raises
\* queue.Empty, which nothing catches
CoordGetEmpty ==
    /\ cpc = "get"
    /\ result_queue = <<>>
    /\ cpc' = "raised"
    /\ UNCHANGED << idx, total, result, reported >>
    /\ UNCHANGED << envVars, workerVars, sharedVars >>

\* An abort from outside: something other than a worker sets found_event
\* while the search runs.
ExternalCancel ==
    /\ cpc \in {"poll", "sleep", "read"}
    /\ ~found_event
    /\ found_event' = TRUE
    /\ aborted' = (published = <<>>)
    /\ UNCHANGED << counter, lock, vlock, result_queue, published >>
    /\ UNCHANGED << argv, hex_mode, n_workers, prefix >>
    /\ UNCHANGED << workerVars, coordVars >>

CoordStep ==
    \/ CoordSpawn
    \/ CoordPoll
    \/ CoordLock
    \/ CoordRead
    \/ CoordGet
    \/ CoordTerminate
    \/ CoordReport

\* ---------------------------------------------------------- specifications
Next ==
    \/ MainHex
    \/ MainNpub
    \/ CoordStep
    \/ \E w \in AllWorkers : WorkerStep(w)
    \/ \E w \in AllWorkers : WorkerRandomFail(w)

\* the program, cancellation coming from the workers alone
Spec == Init /\ [][Next]_vars

\* Every process that can take a step is scheduled: the workers and the main
\* process are separate operating system processes.  The random source is not
\* required to fail.
Fairness ==
    /\ WF_vars(MainHex \/ MainNpub \/ CoordStep)
    /\ \A w \in AllWorkers : WF_vars(WorkerStep(w))

FairSpec == Spec /\ Fairness

NextAbort == Next \/ ExternalCancel \/ CoordGetEmpty

\* the program with an abort from outside
SpecAbort == Init /\ [][NextAbort]_vars

\* ------------------------------------------------------------------ claims
RECURSIVE SumOver(_, _)
SumOver(f, S) == IF S = {} THEN 0 ELSE LET x == CHOOSE y \in S : TRUE IN f[x] + SumOver(f, S \ {x})

\* the key-generation attempts made so far by all workers together
TotalAttempts == SumOver(local_count, Workers)

Polling == cpc \in {"poll", "sleep", "read"}

\* C1: when the search has completed (the result retrieved, every worker exited
\* or stopped, the count reported), the reported totalAttempts equals the number
\* of key-generation attempts made by all workers together.
C1_ExactTotalAtCompletion == (cpc = "drained") => (reported = TotalAttempts /\ counter = TotalAttempts)

\* C2: the result channel has received at most one SearchResult, in every state.
C2_AtMostOneResultPublished == Len(published) <= 1

\* C3: the Coordinator consumes exactly one SearchResult, the first one that was
\* published; results published later stay on the channel and are never returned.
C3_FirstWriterWins ==
    IF cpc \in {"terminate", "report", "drained"}
    THEN /\ published # <<>>
         /\ result = << published[1] >>
         /\ result_queue = Tail(published)
    ELSE result = <<>> /\ result_queue = published

C3_Witness ==
    /\ cpc = "drained"
    /\ Len(published) = 2
    /\ published[1] # published[2]
    /\ result = << published[1] >>

\* C4: every published SearchResult, and the one the Coordinator holds, has a
\* public key whose encoding (hex in Hex mode, the npub text after npub1 in
\* Bech32 mode) has the prefix as its first characters.
C4_PublishedMatchesPrefix ==
    /\ \A k \in DOMAIN published : EncodingHasPrefix(published[k][2])
    /\ \A k \in DOMAIN result : EncodingHasPrefix(result[k][2])

C4_Witness ==
    /\ ~hex_mode
    /\ prefix = <<"q">>
    /\ cpc = "drained"
    /\ result # <<>>
    /\ \E w \in Workers : local_count[w] > 1

\* C5: once a worker has found a match and published it, the Coordinator goes
\* on to Drained: the program never stops short of it with nothing left to run.
C5_NeverBlockedAfterMatch == (published # <<>> /\ cpc # "drained") => ENABLED Next

\* C6: a worker begins at most one batch interval of key generations after
\* cancellation is set, and while a worker is still running after cancellation
\* the program is never stuck: the worker goes on to exit or is stopped.
C6_BoundedOverrun ==
    \A w \in Workers :
        /\ overrun[w] <= BatchSize
        /\ (found_event /\ Running(w)) => ENABLED Next

C6_Witness ==
    \E w \in Workers : overrun[w] = 1 /\ wpc[w] = "done" /\ found_event

\* C7: in Hex mode workers are spawned only for a prefix made of hex digits 0-9a-f.
C7_HexSearchHasHexPrefix ==
    (hex_mode /\ cpc \notin {"main", "exit1"}) => Range(prefix) \subseteq Range(HEXDIGITS)

\* C8: in Bech32 mode the prefix the workers match against is the lower-cased
\* argument without a leading npub1; the search starts exactly when all its
\* characters are in the bech32 alphabet, and otherwise the program exits with
\* code 1 and no worker spawned.
C8_NpubPrefixNormalized ==
    (~hex_mode /\ argv # <<>> /\ cpc # "main") =>
        LET low == lower(argv[1])
            stripped == IF Len(low) >= Len(NPUB1) /\ SubSeq(low, 1, Len(NPUB1)) = NPUB1
                        THEN SubSeq(low, Len(NPUB1) + 1, Len(low))
                        ELSE low
        IN  IF Range(stripped) \subseteq Range(BECH32_CHARSET)
            THEN cpc # "exit1" /\ prefix = stripped
            ELSE cpc = "exit1" /\ \A w \in AllWorkers : wpc[w] = "unborn"

C8_Witness ==
    /\ ~hex_mode
    /\ argv = << <<"N","p","u","b","1","q">> >>
    /\ prefix = <<"q">>
    /\ published # <<>>

\* C9: when found_event was set from outside with no SearchResult published,
\* the Coordinator neither fails nor returns a result.
C9_AbortIsHandled == aborted => cpc \notin {"raised", "terminate", "report", "drained"}

\* C10: when every worker has aborted on a failure of the random source, the
\* Coordinator eventually leaves its polling loop.
C10_FatalWhenAllWorkersAbort ==
    (Polling /\ \A w \in Workers : wpc[w] = "crashed") ~> ~Polling

\* C11: with a single worker, a search that returns hands back the first key
\* pair of the worker's draws whose encoding starts with the prefix, and the
\* total it reports is that draw's 1-based position (at least 1), whether or
\* not the position is a multiple of the batch size.
C11_SingleWorkerFirstMatch ==
    (n_workers = 1 /\ cpc = "drained") =>
        /\ first_hit[1] # <<>>
        /\ result = << << first_hit[1][2], first_hit[1][3] >> >>
        /\ reported = first_hit[1][1]
        /\ reported = local_count[1]
        /\ reported >= 1

C11_Witness ==
    /\ n_workers = 1
    /\ cpc = "drained"
    /\ reported = BatchSize
    /\ first_hit[1] # <<>>
    /\ first_hit[1][1] = BatchSize

\* C12: a matching worker flushes its remainder, then publishes, then sets
\* found_event: when it is about to publish or to set found_event everything it
\* attempted, the winning attempt included, is in counter.value, and when it
\* is about to set found_event its key pair has been published.
C12_FlushPublishSet ==
    \A w \in Workers :
        /\ wpc[w] \in {"put", "set"} =>
              /\ flushed[w] = local_count[w]
              /\ counter >= local_count[w]
              /\ local_count[w] >= 1
        /\ wpc[w] = "set" =>
              \E k \in DOMAIN published : published[k] = << priv_bytes[w], pub_bytes[w] >>
        /\ wpc[w] = "put" => match[w]

C12_Witness ==
    \E w \in Workers :
        /\ wpc[w] = "set"
        /\ local_count[w] = MaxAttempts
        /\ ~found_event
        /\ counter >= MaxAttempts

\* C13: when only workers set found_event, found_event set means a result has
\* been published, and the Coordinator's get after the polling loop finds the
\* queue non-empty.
C13_CancelledImpliesPublished ==
    /\ found_event => published # <<>>
    /\ cpc = "get" => result_queue # <<>>
    /\ cpc \in {"terminate", "report", "drained"} => result # <<>>

C13_Witness ==
    /\ cpc = "get"
    /\ found_event
    /\ Len(result_queue) = 1

\* C14: once the Coordinator has left the terminate/join loop no worker is
\* running, and from then on (the final read of counter.value and the report
\* included) no worker generates a key or moves and counter.value is unchanged.
C14_NoWorkerAfterJoin ==
    [][ /\ cpc' \in {"report", "drained"} => \A w \in Workers : ~Running(w)'
        /\ cpc \in {"report", "drained"} =>
              /\ counter' = counter
              /\ local_count' = local_count
              /\ wpc' = wpc ]_vars

C14_Witness ==
    /\ cpc = "drained"
    /\ \E w \in Workers : wpc[w] = "terminated" /\ local_count[w] >= 1
    /\ reported = counter

\* C15: counter.value never decreases, and each value the Coordinator reads in
\* its polling loop is at least the one it read before.
C15_CounterMonotone ==
    [][ counter' >= counter /\ total' >= total ]_vars

C15_Witness ==
    /\ cpc = "read"
    /\ total >= 1
    /\ counter > total

\* the positions of a worker inside one of its two "with lock:" blocks
InFlush == {"b_get", "b_set", "b_write", "b_unlock", "m_get", "m_set", "m_write", "m_unlock"}

\* C16: the counter lock has at most one holder; the Coordinator holds it only
\* for its read and a live worker only inside one flush, never while it
\* generates, matches, publishes or sets found_event; and counter.value is the
\* sum of everything the workers have flushed (no update is lost).
C16_LockDiscipline ==
    /\ Cardinality(lock) <= 1
    /\ lock \subseteq Workers \cup {Main}
    /\ Main \in lock <=> cpc = "read"
    /\ \A w \in Workers :
          /\ wpc[w] \in InFlush => w \in lock
          /\ w \in lock => wpc[w] \in InFlush \cup {"terminated"}
          /\ wpc[w] \in {"loop", "gen", "b_lock", "m_lock", "put", "set", "done", "crashed"}
                => w \notin lock
    /\ counter = SumOver(flushed, Workers)

C16_Witness ==
    \E w \in Workers : \E v \in Workers \ {w} :
        /\ w \in lock
        /\ wpc[w] = "m_write"
        /\ wpc[v] \in {"b_lock", "m_lock"}
        /\ flushed[v] >= 1
        /\ counter = flushed[v] + flushed[w]

\* C17: found_event starts cleared, no step clears it once it is set, and a
\* worker that sets it when it is already set changes nothing shared.
C17_CancellationSetOnce ==
    /\ ~found_event
    /\ [][ /\ found_event => found_event'
           /\ (found_event /\ \E w \in Workers : wpc[w] = "set" /\ wpc'[w] = "done")
                 => UNCHANGED sharedVars ]_vars

C17_Witness ==
    /\ n_workers = 2
    /\ found_event
    /\ Len(published) = 2
    /\ \A w \in Workers : wpc[w] = "done"

\* what worker w has attempted and not yet added to counter.value
Unflushed(w) == local_count[w] - flushed[w]

\* C18: in every reachable state counter.value is at most the number of key
\* pairs generated so far by all workers, and each worker's attempts not yet
\* flushed are between 0 and the batch size.
C18_NeverOverCounts ==
    /\ counter <= TotalAttempts
    /\ \A w \in Workers : Unflushed(w) >= 0 /\ Unflushed(w) <= BatchSize

C18_Witness ==
    \E w \in Workers :
        /\ Unflushed(w) = BatchSize
        /\ flushed[w] = 0
        /\ wpc[w] = "b_write"
        /\ counter < TotalAttempts

\* C19: a worker the Coordinator has terminated holds neither the counter lock
\* nor the lock of counter.value (it was not stopped inside a flush), so the
\* Coordinator's final read of counter.value finds no lock held.
C19_NoKillInsideFlush ==
    /\ \A w \in Workers : wpc[w] = "terminated" => w \notin lock /\ w \notin vlock
    /\ cpc = "report" => lock = {} /\ vlock = {}

====
